---------------------------- MODULE Spec2Model ----------------------------
(***************************************************************************)
(* A model of webvtt/structures.py: the Caption cue (its timestamp codec,  *)
(* its line list, its tag stripper and its SRT markup translator) and the  *)
(* Style block (its colour extractor).                                     *)
(*                                                                         *)
(* Text is a sequence of one-character strings.  A Python value is a       *)
(* record tagged with its type in the field "kind".  Seconds are counted   *)
(* in integer units: a stored cue time is a count of milliseconds, the     *)
(* argument of _to_timestamp a count of 1/UnitsPerMs milliseconds.         *)
(***************************************************************************)
EXTENDS Integers, Sequences, FiniteSets, TLC

VARIABLES
    heap,       \* list objects: list id -> sequence of lines
    cues,       \* cue -> [start, end (ms), identifier, lines (list id)]
    hist,       \* cue -> [assigned, appended]: its own text/add_line history
    last,       \* the last operation: [op, arg, raised]
    colours,    \* the style mapping handed to to_srt_formatted
    srtIn,      \* the segments the translated cue text was written from
    srtOut,     \* the last result of to_srt_formatted
    tsIn,       \* codec input: seconds (in units) or the parts of a string
    tsStr,      \* codec: the timestamp string
    tsVal,      \* codec: the result of _parse_timestamp
    tsPc,       \* codec: position of the codec run
    style,      \* the Style block's lines
    styleIn,    \* the rules the style text was written from
    styleOut    \* the last result of Style.colours

vars == <<heap, cues, hist, last, colours, srtIn, srtOut,
          tsIn, tsStr, tsVal, tsPc, style, styleIn, styleOut>>

cueVars == <<heap, cues, hist, last, colours, srtIn, srtOut>>
tsVars == <<tsIn, tsStr, tsVal, tsPc>>
styleVars == <<style, styleIn, styleOut>>

-----------------------------------------------------------------------------
(* Bounds of the model.                                                    *)

\* sub-millisecond resolution of a seconds value given to _to_timestamp
UnitsPerMs == 4
\* longest line list a cue is grown to by add_line
MaxLines == 2
\* most segments (plain runs and spans) of a translated cue text
MaxSegs == 2
\* most rules of a style text
MaxRules == 2

-----------------------------------------------------------------------------
(* Text helpers.                                                           *)

NL == "\n"

Min(S) == CHOOSE x \in S : \A y \in S : x <= y

Max(S) == CHOOSE x \in S : \A y \in S : x >= y

\* the literal lit stands in s at position i
IsAt(s, lit, i) ==
    /\ i >= 1
    /\ i + Len(lit) - 1 <= Len(s)
    /\ \A k \in 1..Len(lit) : s[i + k - 1] = lit[k]

\* the least position of S, 0 if S is empty: where the leftmost match starts
MinOrZero(S) == IF S = {} THEN 0 ELSE Min(S)

\* first position >= from where lit stands in s, 0 if none
FirstAt(s, lit, from) ==
    MinOrZero({j \in from..(Len(s) - Len(lit) + 1) : IsAt(s, lit, j)})

\* s[a..b] holds no line break: what a run of the regex "." can cover
NoNewline(s, a, b) == \A j \in a..b : s[j] # NL

Slice(s, a, b) == IF a > b THEN <<>> ELSE SubSeq(s, a, b)

\* str.join: '\n'.join(lines), ''.join(lines)
RECURSIVE Join(_, _)
Join(sep, lines) ==
    IF lines = <<>> THEN <<>>
    ELSE IF Len(lines) = 1 THEN lines[1]
    ELSE lines[1] \o sep \o Join(sep, Tail(lines))

\* str.splitlines over texts whose only line break is "\n"
\* (a text that ends with its last line break has no empty last line)
RECURSIVE SplitLines(_)
SplitLines(s) ==
    LET BreakAt(j) ==
            IF j = 0 THEN <<s>>
            ELSE <<Slice(s, 1, j - 1)>> \o SplitLines(Slice(s, j + 1, Len(s)))
    IN IF s = <<>> THEN <<>> ELSE BreakAt(FirstAt(s, <<NL>>, 1))

-----------------------------------------------------------------------------
(* Timestamp codec: TIMESTAMP_PATTERN, _to_seconds, _parse_timestamp,      *)
(* _to_timestamp.                                                          *)

DigitChars == <<"0", "1", "2", "3", "4", "5", "6", "7", "8", "9">>

IsDigit(c) == \E d \in 1..10 : DigitChars[d] = c

DigitValue(c) == (CHOOSE d \in 1..10 : DigitChars[d] = c) - 1

\* int(x) of a digit string
RECURSIVE IntOf(_)
IntOf(ds) ==
    IF ds = <<>> THEN 0
    ELSE IntOf(SubSeq(ds, 1, Len(ds) - 1)) * 10 + DigitValue(ds[Len(ds)])

\* '{:d}'.format(n), n >= 0
RECURSIVE Decimal(_)
Decimal(n) ==
    IF n < 10 THEN <<DigitChars[n + 1]>>
    ELSE Decimal(n \div 10) \o <<DigitChars[(n % 10) + 1]>>

\* '{:02d}'.format(n): zero-padded to at least two digits
Pad2(n) == IF n < 10 THEN <<"0">> \o Decimal(n) ELSE Decimal(n)

\* exactly three digits of n < 1000
Pad3(n) ==
    <<DigitChars[(n \div 100) + 1], DigitChars[((n \div 10) % 10) + 1],
      DigitChars[(n % 10) + 1]>>

\* length of the run of digits s starts with: what (\d+) can take
DigitRun(s) ==
    Max({n \in 0..Len(s) : \A k \in 1..n : IsDigit(s[k])})

\* (\d{2}):(\d{2})[.,](\d{3}) stands in s at p
TailAt(s, p) ==
    /\ p >= 1
    /\ p + 8 <= Len(s)
    /\ IsDigit(s[p]) /\ IsDigit(s[p + 1])
    /\ s[p + 2] = ":"
    /\ IsDigit(s[p + 3]) /\ IsDigit(s[p + 4])
    /\ s[p + 5] \in {".", ","}
    /\ IsDigit(s[p + 6]) /\ IsDigit(s[p + 7]) /\ IsDigit(s[p + 8])

\* with n characters taken by the hour group: where the rest of the pattern
\* matches (":?" is greedy: it takes a colon if one is there), 0 if nowhere
AfterHours(s, n) ==
    IF n + 1 <= Len(s) /\ s[n + 1] = ":" /\ TailAt(s, n + 2) THEN n + 2
    ELSE IF TailAt(s, n + 1) THEN n + 1
    ELSE 0

\* the pattern requires the hour group: (\d+):?(\d{2}):(\d{2})[.,](\d{3})
HourLengthsRequired(s) == {n \in 1..DigitRun(s) : AfterHours(s, n) # 0}

\* the lengths of (\d+)? with which the whole pattern matches at the start
\* of s; 0 is the group left out
HourLengths(s) == {n \in 0..DigitRun(s) : AfterHours(s, n) # 0}

\* re.match(TIMESTAMP_PATTERN, s): the groups of the first match in
\* backtracking order ((\d+)? is greedy: the longest hour part that works),
\* each group as int(x) if x else 0
TimestampMatch(s) ==
    LET Groups(n, p) == <<IntOf(Slice(s, 1, n)),
                          IntOf(SubSeq(s, p, p + 1)),
                          IntOf(SubSeq(s, p + 3, p + 4)),
                          IntOf(SubSeq(s, p + 6, p + 8))>>
        Taking(n) == [found |-> TRUE, groups |-> Groups(n, AfterHours(s, n))]
        Longest(L) == IF L = {} THEN [found |-> FALSE, groups |-> <<>>]
                      ELSE Taking(Max(L))
    IN Longest(HourLengths(s))

\* _to_seconds, in milliseconds
ToSeconds(hours, minutes, seconds, milliseconds) ==
    (hours * 3600 + minutes * 60 + seconds) * 1000 + milliseconds

\* _parse_timestamp: the seconds (in milliseconds), or the error raised
ParseTimestamp(s) ==
    LET Values(res) ==
            IF ~res.found
            THEN [raised |-> "MalformedCaptionError", value |-> 0]
            ELSE [raised |-> "",
                  value |-> ToSeconds(res.groups[1], res.groups[2],
                                      res.groups[3], res.groups[4])]
    IN Values(TimestampMatch(s))

\* '{:06.3f}'.format(seconds) cutting the digits after the third
FormatSecondsTruncating(r, tieUp) ==
    Pad2((r \div UnitsPerMs) \div 1000) \o <<".">>
    \o Pad3((r \div UnitsPerMs) % 1000)

\* '{:06.3f}'.format(seconds) of r units: rounded to the nearest
\* millisecond; at an exact decimal tie the float's binary error decides,
\* so either neighbour (tieUp)
FormatSeconds(r, tieUp) ==
    LET Digits(ms) == Pad2(ms \div 1000) \o <<".">> \o Pad3(ms % 1000)
        Rounded(lo, rem) ==
            IF 2 * rem > UnitsPerMs \/ (2 * rem = UnitsPerMs /\ tieUp)
            THEN lo + 1 ELSE lo
    IN Digits(Rounded(r \div UnitsPerMs, r % UnitsPerMs))

\* _to_timestamp of total units (>= 0)
ToTimestamp(total, tieUp) ==
    LET Formatted(hours, minutes) ==
            Pad2(hours) \o <<":">> \o Pad2(minutes) \o <<":">>
            \o FormatSeconds(total - hours * 3600 * 1000 * UnitsPerMs
                                   - minutes * 60 * 1000 * UnitsPerMs, tieUp)
        Minutes(hours) ==
            Formatted(hours, (total \div (60 * 1000 * UnitsPerMs)) - hours * 60)
    IN Minutes(total \div (3600 * 1000 * UnitsPerMs))


-----------------------------------------------------------------------------
(* The codec run on its own: _to_timestamp of a seconds value and          *)
(* _parse_timestamp of the string it gives, or _parse_timestamp of a       *)
(* string written from its parts.                                          *)

HourSample == {0, 1, 99, 100}
MinuteSample == {0, 59}
SecondSample == {0, 59}
MilliSample == {0, 999}

\* seconds values, in units, around the minute, hour and 100 hour marks
SecondsInputs ==
    {((h * 3600 + m * 60 + s) * 1000 + ms) * UnitsPerMs + sub :
        h \in HourSample, m \in MinuteSample, s \in SecondSample,
        ms \in MilliSample, sub \in 0..(UnitsPerMs - 1)}

DigitSample == {"0", "1", "9"}

RECURSIVE DigitStrings(_)
DigitStrings(n) ==
    IF n = 0 THEN {<<>>}
    ELSE {Append(ds, d) : ds \in DigitStrings(n - 1), d \in DigitSample}

\* hour parts: none (<<>>), or one to four digits
HourParts ==
    {<<>>, <<"0">>, <<"7">>, <<"0", "0">>, <<"1", "2">>, <<"9", "9">>,
     <<"1", "0", "0">>, <<"5", "9", "0">>, <<"0", "1", "0", "0">>}

MilliParts == {<<"0", "0", "0">>, <<"0", "0", "7">>, <<"9", "9", "9">>}

\* [H+:]MM:SS.mmm or [H+:]MM:SS,mmm written from its parts
TimestampOf(f) ==
    (IF f.hours = <<>> THEN <<>> ELSE f.hours \o <<":">>)
    \o f.mm \o <<":">> \o f.ss \o <<f.sep>> \o f.mmm

NotParsed == [raised |-> "", value |-> 0]

TsIdle ==
    /\ tsIn = [kind |-> "none"]
    /\ tsStr = <<>>
    /\ tsVal = NotParsed
    /\ tsPc = "idle"

TsInit ==
    /\ tsVal = NotParsed
    /\ \/ /\ \E u \in SecondsInputs : tsIn = [kind |-> "seconds", units |-> u]
          /\ tsStr = <<>>
          /\ tsPc = "format"
       \/ /\ \E h \in HourParts, m \in DigitStrings(2), s \in DigitStrings(2),
               sep \in {".", ","}, ms \in MilliParts :
               tsIn = [kind |-> "string", hours |-> h, mm |-> m, ss |-> s,
                       sep |-> sep, mmm |-> ms]
          /\ tsStr = TimestampOf(tsIn)
          /\ tsPc = "parse"

\* _to_timestamp(total_seconds)
ToTimestampStep ==
    /\ tsPc = "format"
    /\ \E tieUp \in BOOLEAN : tsStr' = ToTimestamp(tsIn.units, tieUp)
    /\ tsPc' = "parse"
    /\ UNCHANGED <<tsIn, tsVal>>

\* _parse_timestamp(timestamp)
ParseTimestampStep ==
    /\ tsPc = "parse"
    /\ tsVal' = ParseTimestamp(tsStr)
    /\ tsPc' = "parsed"
    /\ UNCHANGED <<tsIn, tsStr>>

-----------------------------------------------------------------------------
(* Caption: the tag stripper (CUE_TEXT_TAGS, _clean_cue_tags).             *)

\* re.sub('<.*?>', '', text): from each "<", leftmost first, to the nearest
\* ">" after it, when no line break lies between ("." matches none)
RECURSIVE CleanCueTags(_)
CleanCueTags(text) ==
    LET TagEnd(i) == FirstAt(text, <<">">>, i + 1)
        Closes(i, e) == e # 0 /\ NoNewline(text, i + 1, e - 1)
        Cut(i, e) == Slice(text, 1, i - 1)
                     \o CleanCueTags(Slice(text, e + 1, Len(text)))
        Leftmost(i) == IF i = 0 THEN text ELSE Cut(i, TagEnd(i))
    IN Leftmost(MinOrZero({i \in 1..Len(text) :
                              text[i] = "<" /\ Closes(i, TagEnd(i))}))

-----------------------------------------------------------------------------
(* Caption: the SRT markup translator (replace_color, _replace_colors,     *)
(* to_srt_formatted).                                                      *)

Tags == <<"c", "i", "b", "u">>

OpenTag(tag) == <<"<", tag>>

CloseTag(tag) == <<"<", "/", tag, ">">>

\* the named references html.unescape is modelled to know
Entities ==
    {[name |-> <<"&", "a", "m", "p", ";">>, char |-> "&"],
     [name |-> <<"&", "l", "t", ";">>, char |-> "<"],
     [name |-> <<"&", "g", "t", ";">>, char |-> ">"]}

\* html.unescape: a text without "&" is returned as it is
RECURSIVE HtmlUnescape(_)
HtmlUnescape(s) ==
    LET Put(i, e) == Slice(s, 1, i - 1) \o <<e.char>>
                     \o HtmlUnescape(Slice(s, i + Len(e.name), Len(s)))
        Leftmost(i) ==
            IF i = 0 THEN s
            ELSE Put(i, CHOOSE x \in Entities : IsAt(s, x.name, i))
    IN Leftmost(MinOrZero({i \in 1..Len(s) :
                              \E e \in Entities : IsAt(s, e.name, i)}))

\* replace_color(x, tag, v), x.group(1) = content
ReplaceColor(content, tag, v) ==
    (IF tag = "c" THEN <<>> ELSE <<"<", tag, ">">>)
    \o <<"<", "f", "o", "n", "t", " ", "c", "o", "l", "o", "r", "=", "\"">>
    \o v \o <<"\"", ">">>
    \o HtmlUnescape(content)
    \o <<"<", "/", "f", "o", "n", "t", ">">>
    \o (IF tag = "c" THEN <<>> ELSE CloseTag(tag))

\* re.search("<" + tag + "\\..*?>.*?</" + tag + ">", s) is not None
SearchSpan(s, tag) ==
    \E i \in 1..Len(s) :
        /\ IsAt(s, OpenTag(tag) \o <<".">>, i)
        /\ \E j \in (i + 3)..Len(s) :
            /\ s[j] = ">"
            /\ NoNewline(s, i + 3, j - 1)
            /\ \E k \in (j + 1)..Len(s) :
                /\ IsAt(s, CloseTag(tag), k)
                /\ NoNewline(s, j + 1, k - 1)

\* ">(.*?)</tag>" with the ">" at q: where the nearest closing tag stands,
\* 0 if a line break comes first or there is none
ContentEnd(s, tag, q) ==
    LET OnLine(k) == IF k # 0 /\ NoNewline(s, q + 1, k - 1) THEN k ELSE 0
    IN OnLine(FirstAt(s, CloseTag(tag), q + 1))

\* "(?:\..*?)?>(.*?)</tag>" from e on: the position of the ">" taken, 0 if
\* none.  With "." at e the lazy run tries each later ">" in turn.
QualifierEnd(s, tag, e) ==
    IF e > Len(s) THEN 0
    ELSE IF s[e] = ">" THEN (IF ContentEnd(s, tag, e) # 0 THEN e ELSE 0)
    ELSE IF s[e] = "."
    THEN MinOrZero({q \in (e + 1)..Len(s) :
                       /\ s[q] = ">"
                       /\ NoNewline(s, e + 1, q - 1)
                       /\ ContentEnd(s, tag, q) # 0})
    ELSE 0

\* where "\.key" is taken by a match starting at i, 0 if there is no match
\* at i.  The first optional group is tried before it is left out: with "."
\* after the tag name its lazy run is stretched, over anything but a line
\* break, to the first ".key" from which the rest matches; only then is
\* ".key" tried right after the tag name.
KeyAt(s, tag, key, i) ==
    LET a == i + Len(OpenTag(tag))
        dotkey == <<".">> \o key
        Works(p) == /\ IsAt(s, dotkey, p)
                    /\ QualifierEnd(s, tag, p + Len(dotkey)) # 0
        Stretched(p) == IF p # 0 THEN p
                        ELSE IF Works(a) THEN a
                        ELSE 0
    IN IF ~IsAt(s, OpenTag(tag) \o <<".">>, i) THEN 0
       ELSE Stretched(MinOrZero({p \in (a + 1)..Len(s) :
                                    NoNewline(s, a + 1, p - 1) /\ Works(p)}))

\* the match of
\*   "<" + tag + "(?:\\..*?)?\\." + key + "(?:\\..*?)?>(.*?)</" + tag + ">"
\* starting at i: [found, group (group 1), next (first position after it)]
ColourMatchAt(s, tag, key, i) ==
    LET Group(q, k) == [found |-> TRUE,
                        group |-> Slice(s, q + 1, k - 1),
                        next |-> k + Len(CloseTag(tag))]
        Content(q) == Group(q, ContentEnd(s, tag, q))
        Keyed(p) == IF p = 0 THEN [found |-> FALSE, group |-> <<>>, next |-> 0]
                    ELSE Content(QualifierEnd(s, tag, p + 1 + Len(key)))
    IN Keyed(KeyAt(s, tag, key, i))

\* re.search(regex_string, s) is not None
ColourSearch(s, tag, key) ==
    \E i \in 1..Len(s) : ColourMatchAt(s, tag, key, i).found

\* re.sub(regex_string, lambda x: replace_color(x, tag, v), s): every
\* match, leftmost first, none overlapping
RECURSIVE ColourSub(_, _, _, _)
ColourSub(s, tag, key, v) ==
    LET Put(i, m) == Slice(s, 1, i - 1) \o ReplaceColor(m.group, tag, v)
                     \o ColourSub(Slice(s, m.next, Len(s)), tag, key, v)
        Leftmost(i) == IF i = 0 THEN s
                       ELSE Put(i, ColourMatchAt(s, tag, key, i))
    IN Leftmost(MinOrZero({i \in 1..Len(s) :
                              ColourMatchAt(s, tag, key, i).found}))

\* _replace_colors: one pass per entry of the mapping, in its order
RECURSIVE ReplaceColors(_, _, _)
ReplaceColors(result, cols, tag) ==
    IF cols = <<>> THEN result
    ELSE ReplaceColors(IF ColourSearch(result, tag, Head(cols).key)
                       THEN ColourSub(result, tag, Head(cols).key,
                                      Head(cols).value)
                       ELSE result,
                       Tail(cols), tag)

\* the loop of to_srt_formatted over tags[n..]: [text, no_tag_found]
RECURSIVE TagLoop(_, _, _, _)
TagLoop(captionText, noTagFound, cols, n) ==
    IF n > Len(Tags) THEN [text |-> captionText, noTagFound |-> noTagFound]
    ELSE IF SearchSpan(captionText, Tags[n])
    THEN TagLoop(ReplaceColors(captionText, cols, Tags[n]), FALSE, cols, n + 1)
    ELSE TagLoop(captionText, noTagFound, cols, n + 1)

\* to_srt_formatted, of a cue with the given raw_text
ToSrtFormattedOf(rawText, cols) ==
    LET Result(r) == IF r.noTagFound THEN CleanCueTags(rawText) ELSE r.text
    IN Result(TagLoop(rawText, TRUE, cols, 1))

-----------------------------------------------------------------------------
(* Caption: the cue object.  A cue holds _start and _end (milliseconds)    *)
(* and _lines, a reference to a list object of the heap.  List 0 is the    *)
(* list the caller of the constructors holds; list c is the list cue c     *)
(* made for itself.                                                        *)

Cues == {1, 2}

CallerList == 0

ListIds == {CallerList} \cup Cues

None == [kind |-> "NoneType"]

Str(chars) == [kind |-> "str", val |-> chars]

\* a reference to the caller's list object
ListRef == [kind |-> "list", id |-> CallerList]

\* a value that is no string
NotAString == [kind |-> "int"]

\* Python truth of a constructor argument
Truthy(v, h) ==
    CASE v.kind = "NoneType" -> FALSE
      [] v.kind = "str" -> v.val # <<>>
      [] v.kind = "list" -> h[v.id] # <<>>
      [] OTHER -> TRUE

DefaultTimestamp ==
    <<"0", "0", ":", "0", "0", ":", "0", "0", ".", "0", "0", "0">>

\* list.append at the front of the list
ListPrepend(lines, line) == <<line>> \o lines

\* list.append(line)
ListAppend(lines, line) == Append(lines, line)

\* Caption.__init__(text=text) of cue c on heap h: [cue, heap].
\*   if text and isinstance(text, str): text = text.splitlines()
\*   self._lines = text or []
\* A non-empty list is kept by reference; anything else gives the cue a
\* list of its own.
CaptionInit(c, text, h) ==
    LET Made(start, end) ==
            IF text.kind = "list" /\ Truthy(text, h)
            THEN [cue |-> [start |-> start, end |-> end, identifier |-> None,
                           lines |-> text.id],
                  heap |-> h]
            ELSE [cue |-> [start |-> start, end |-> end, identifier |-> None,
                           lines |-> c],
                  heap |-> [h EXCEPT ![c] =
                               IF text.kind = "str" /\ Truthy(text, h)
                               THEN SplitLines(text.val) ELSE <<>>]]
    IN Made(ParseTimestamp(DefaultTimestamp).value,
            ParseTimestamp(DefaultTimestamp).value)

\* the start/end setter that stores 0 before it raises
TimeSetterClearing(old, value) ==
    LET Assign(r) == IF r.raised # "" THEN [raised |-> r.raised, stored |-> 0]
                     ELSE [raised |-> "", stored |-> r.value]
    IN Assign(ParseTimestamp(value))

\* start.setter / end.setter: self._start = self._parse_timestamp(value);
\* the error leaves the stored value as it was
TimeSetter(old, value) ==
    LET Assign(r) == IF r.raised # "" THEN [raised |-> r.raised, stored |-> old]
                     ELSE [raised |-> "", stored |-> r.value]
    IN Assign(ParseTimestamp(value))

\* text.setter: a non-string raises; a string gives the cue a new list
TextSetter(old, value) ==
    IF value.kind # "str"
    THEN [raised |-> "AttributeError", fresh |-> FALSE, lines |-> old]
    ELSE [raised |-> "", fresh |-> TRUE, lines |-> SplitLines(value.val)]

\* the properties of cue c
Lines(c) == heap[cues[c].lines]

RawText(c) == Join(<<NL>>, Lines(c))

Text(c) == CleanCueTags(RawText(c))

Start(c) == ToTimestamp(cues[c].start * UnitsPerMs, FALSE)

End(c) == ToTimestamp(cues[c].end * UnitsPerMs, FALSE)

StartInSeconds(c) == cues[c].start

EndInSeconds(c) == cues[c].end

\* what the first assignment of lines came from: the lines the constructor
\* was given
InitialHistory(text, h) ==
    [assigned |-> IF text.kind = "list" THEN h[text.id]
                  ELSE IF text.kind = "str" THEN SplitLines(text.val)
                  ELSE <<>>,
     appended |-> <<>>]

\* the record of a call: its argument and the error it raised ("": none)
Returned(op, arg, raised) == [op |-> op, arg |-> arg, raised |-> raised]

\* add_line(line)
AddLine(c, line) ==
    /\ Len(Lines(c)) < MaxLines
    /\ heap' = [heap EXCEPT ![cues[c].lines] = ListAppend(@, line)]
    /\ hist' = [hist EXCEPT ![c].appended = Append(@, line)]
    /\ last' = Returned("add_line", line, "")
    /\ srtOut' = <<>>
    /\ UNCHANGED <<cues, colours, srtIn>>

\* cue.text = value
SetText(c, value) ==
    LET Assign(r) ==
            /\ last' = Returned("text", value, r.raised)
            /\ IF r.fresh
               THEN /\ heap' = [heap EXCEPT ![c] = r.lines]
                    /\ cues' = [cues EXCEPT ![c].lines = c]
                    /\ hist' = [hist EXCEPT ![c] =
                                   [assigned |-> r.lines, appended |-> <<>>]]
               ELSE UNCHANGED <<heap, cues, hist>>
    IN /\ Assign(TextSetter(Lines(c), value))
       /\ srtOut' = <<>>
       /\ UNCHANGED <<colours, srtIn>>

\* cue.start = value
SetStart(c, value) ==
    LET Assign(r) == /\ last' = Returned("start", value, r.raised)
                     /\ cues' = [cues EXCEPT ![c].start = r.stored]
    IN /\ Assign(TimeSetter(cues[c].start, value))
       /\ srtOut' = <<>>
       /\ UNCHANGED <<heap, hist, colours, srtIn>>

\* cue.end = value
SetEnd(c, value) ==
    LET Assign(r) == /\ last' = Returned("end", value, r.raised)
                     /\ cues' = [cues EXCEPT ![c].end = r.stored]
    IN /\ Assign(TimeSetter(cues[c].end, value))
       /\ srtOut' = <<>>
       /\ UNCHANGED <<heap, hist, colours, srtIn>>

\* cue.to_srt_formatted(colours)
ToSrtFormatted(c) ==
    /\ srtOut' = ToSrtFormattedOf(RawText(c), colours)
    /\ last' = Returned("to_srt_formatted", None, "")
    /\ UNCHANGED <<heap, cues, hist, colours, srtIn>>

-----------------------------------------------------------------------------
(* Style: text, colours (COLOURS_PATTERN).                                 *)

Whitespace == {" ", "\t", NL}

\* str.split('\n')
RECURSIVE SplitOnNewline(_)
SplitOnNewline(s) ==
    LET BreakAt(j) ==
            IF j = 0 THEN <<s>>
            ELSE <<Slice(s, 1, j - 1)>>
                 \o SplitOnNewline(Slice(s, j + 1, Len(s)))
    IN BreakAt(FirstAt(s, <<NL>>, 1))

\* str.strip()
Strip(s) ==
    LET Kept(K) == IF K = {} THEN <<>> ELSE SubSeq(s, Min(K), Max(K))
    IN Kept({i \in 1..Len(s) : s[i] \notin Whitespace})

\* Style.text: ''.join(map(lambda x: x.strip(), self.lines))
StyleText(lines) == Join(<<>>, [i \in 1..Len(lines) |-> Strip(lines[i])])

CueSelector == <<":", ":", "c", "u", "e", "(", ".">>

ColorColon == <<"c", "o", "l", "o", "r", ":">>

\* the match of  ::cue\(\.([^)]+)\)\s*{.*?color:(.*?);.*?}  starting at i:
\* [found, class, value, next].  Each lazy run stops at the first place the
\* next literal stands, whatever lies between but a line break.
ColoursMatchAt(s, i) ==
    LET a == i + Len(CueSelector)
        none == [found |-> FALSE, class |-> <<>>, value |-> <<>>, next |-> 0]
        Closed(paren, col, semi, close) ==
            IF close = 0 \/ ~NoNewline(s, semi + 1, close - 1) THEN none
            ELSE [found |-> TRUE,
                  class |-> SubSeq(s, a, paren - 1),
                  value |-> Slice(s, col + Len(ColorColon), semi - 1),
                  next |-> close + 1]
        Valued(paren, col, semi) ==
            IF semi = 0 \/ ~NoNewline(s, col + Len(ColorColon), semi - 1)
            THEN none
            ELSE Closed(paren, col, semi, FirstAt(s, <<"}">>, semi + 1))
        Declared(paren, brace, col) ==
            IF col = 0 \/ ~NoNewline(s, brace + 1, col - 1) THEN none
            ELSE Valued(paren, col,
                        FirstAt(s, <<";">>, col + Len(ColorColon)))
        Opened(paren, brace) ==
            IF brace = 0 THEN none
            ELSE IF s[brace] # "{" THEN none
            ELSE Declared(paren, brace, FirstAt(s, ColorColon, brace + 1))
        Selected(paren) ==
            IF paren = 0 \/ paren = a THEN none
            ELSE Opened(paren,
                        MinOrZero({x \in (paren + 1)..Len(s) :
                                      s[x] \notin Whitespace}))
    IN IF ~IsAt(s, CueSelector, i) THEN none
       ELSE Selected(FirstAt(s, <<")">>, a))

\* COLOURS_PATTERN.findall(s): the (class, value) groups of every match,
\* leftmost first, none overlapping
RECURSIVE ColoursFindAll(_)
ColoursFindAll(s) ==
    LET Put(m) == <<<<m.class, m.value>>>>
                  \o ColoursFindAll(Slice(s, m.next, Len(s)))
        Leftmost(i) == IF i = 0 THEN <<>> ELSE Put(ColoursMatchAt(s, i))
    IN Leftmost(MinOrZero({i \in 1..Len(s) : ColoursMatchAt(s, i).found}))

\* x.replace(" ", "")
RemoveSpaces(s) == SelectSeq(s, LAMBDA ch : ch # " ")

\* dict(pairs): a later pair of a key replaces the value of the earlier one
RECURSIVE DictOf(_)
DictOf(pairs) ==
    LET Set(d, e, i) == IF i = 0 THEN Append(d, [key |-> e[1], value |-> e[2]])
                        ELSE [d EXCEPT ![i].value = e[2]]
        Update(d, e) ==
            Set(d, e, MinOrZero({i \in 1..Len(d) : d[i].key = e[1]}))
    IN IF pairs = <<>> THEN <<>>
       ELSE Update(DictOf(SubSeq(pairs, 1, Len(pairs) - 1)), pairs[Len(pairs)])

\* Style.colours of a block with the given lines
StyleColours(lines) ==
    LET Zipped(found) == [i \in 1..Len(found) |->
                             <<found[i][1], RemoveSpaces(found[i][2])>>]
    IN DictOf(Zipped(ColoursFindAll(StyleText(lines))))

\* Style.text = value
StyleTextSetter(old, value) ==
    IF value.kind # "str" THEN [raised |-> "TypeError", lines |-> old]
    ELSE [raised |-> "", lines |-> SplitOnNewline(value.val)]

-----------------------------------------------------------------------------
(* The values the operations are called with.                              *)

\* a line with a class span
TaggedLine == <<"<", "i", ".", "r", ">", "a", "<", "/", "i", ">">>

\* lines that open and close a tag
LineValues == {<<"<", "b">>, <<"c", ">">>}

TextArgs ==
    {Str(TaggedLine \o <<NL>>), Str(<<"<", "b", NL, "c", ">">>), NotAString}

CtorArgs == {None, Str(TaggedLine), ListRef}

CallerLists == {<<>>, <<TaggedLine>>}

TimeArgs == {<<"0", "0", ":", "0", "1", ".", "5", "0", "0">>, <<"b", "a", "d">>}

Entry(k, v) == [key |-> k, value |-> v]

Red == Entry(<<"r">>, <<"#", "f", "0", "0">>)

Green == Entry(<<"g">>, <<"l", "i", "m", "e">>)

\* style mappings: a dict in its insertion order
Mappings == {<<>>, <<Red>>, <<Red, Green>>, <<Green, Red>>}

PlainTexts == {<<"p">>, <<"p", NL, "q">>}

Contents == {<<"x">>, <<"x", NL, "y">>}

Plain(t) == [kind |-> "plain", tag |-> "", class |-> <<>>, text |-> t]

\* class <<>>: a span whose tag has no class qualifier
Span(tag, class, t) ==
    [kind |-> "span", tag |-> tag, class |-> class, text |-> t]

Segments ==
    {Plain(t) : t \in PlainTexts}
    \cup {Span(Tags[n], cl, t) :
             n \in 1..Len(Tags), cl \in {<<>>, Red.key, Green.key}, t \in Contents}

RECURSIVE SegmentSeqs(_)
SegmentSeqs(n) ==
    IF n = 0 THEN {<<>>}
    ELSE SegmentSeqs(n - 1)
         \cup {Append(q, g) : q \in SegmentSeqs(n - 1), g \in Segments}

\* the cue text a segment is written as
RenderSegment(g) ==
    IF g.kind = "plain" THEN g.text
    ELSE OpenTag(g.tag)
         \o (IF g.class = <<>> THEN <<>> ELSE <<".">> \o g.class)
         \o <<">">> \o g.text \o CloseTag(g.tag)

Render(segs) == Join(<<>>, [i \in 1..Len(segs) |-> RenderSegment(segs[i])])

-----------------------------------------------------------------------------
(* The cue machine: two cues built by the same caller, then any operation  *)
(* on either.                                                              *)

\* both cues constructed: cue 1 from a1, then cue 2 from a2
Constructed(l0, a1, a2) ==
    LET h0 == [i \in ListIds |-> IF i = CallerList THEN l0 ELSE <<>>]
        Both(r1, r2) ==
            /\ heap = r2.heap
            /\ cues = [c \in Cues |-> IF c = 1 THEN r1.cue ELSE r2.cue]
        Second(r1) == Both(r1, CaptionInit(2, a2, r1.heap))
    IN /\ Second(CaptionInit(1, a1, h0))
       /\ hist = [c \in Cues |->
                     InitialHistory(IF c = 1 THEN a1 ELSE a2, h0)]
       /\ last = Returned("__init__", None, "")
       /\ srtOut = <<>>

CueIdle ==
    /\ Constructed(<<>>, None, None)
    /\ colours = <<>>
    /\ srtIn = <<>>

StyleIdle ==
    /\ style = [lines |-> <<>>]
    /\ styleIn = <<>>
    /\ styleOut = <<>>

CueInit ==
    /\ \E l0 \in CallerLists, a1 \in CtorArgs, a2 \in CtorArgs :
           Constructed(l0, a1, a2)
    /\ colours = <<Red>>
    /\ srtIn = <<>>

CueStep(c) ==
    /\ \/ \E line \in LineValues : AddLine(c, line)
       \/ \E value \in TextArgs : SetText(c, value)
       \/ \E value \in TimeArgs : SetStart(c, value)
       \/ \E value \in TimeArgs : SetEnd(c, value)
       \/ ToSrtFormatted(c)
    /\ UNCHANGED <<tsVars, styleVars>>

Init == CueInit /\ TsIdle /\ StyleIdle

Next == \E c \in Cues : CueStep(c)

Spec == Init /\ [][Next]_vars

\* one cue operated alone
NextOne == CueStep(1)

SpecOne == Init /\ [][NextOne]_vars

-----------------------------------------------------------------------------
(* The translator on a cue whose text is written from segments.            *)

SrtInit ==
    /\ \E segs \in SegmentSeqs(MaxSegs) :
           /\ srtIn = segs
           /\ Constructed(<<>>, Str(Render(segs)), None)
    /\ colours \in Mappings
    /\ TsIdle
    /\ StyleIdle

SrtNext == ToSrtFormatted(1) /\ UNCHANGED <<tsVars, styleVars>>

SpecSrt == SrtInit /\ [][SrtNext]_vars

-----------------------------------------------------------------------------
(* The codec on its own.                                                   *)

TsNext ==
    /\ \/ ToTimestampStep
       \/ ParseTimestampStep
    /\ UNCHANGED <<cueVars, styleVars>>

CodecInit == CueIdle /\ TsInit /\ StyleIdle

SpecTs == CodecInit /\ [][TsNext]_vars

-----------------------------------------------------------------------------
(* The Style block: its text set from rules, its colours read.             *)

\* a declaration: its text, and the colour it declares (<<>>: none)
Declaration(text, colour) == [text |-> text, colour |-> colour]

ColorR == Declaration(<<"c", "o", "l", "o", "r", ":", " ", "r", ";">>, <<"r">>)

ColorG == Declaration(<<"c", "o", "l", "o", "r", ":", "g", ";">>, <<"g">>)

TopOne == Declaration(<<"t", "o", "p", ":", "1", ";">>, <<>>)

Bodies == {<<ColorR>>, <<ColorG>>, <<TopOne>>, <<TopOne, ColorR>>}

ClassNames == {<<"a">>, <<"b">>}

Rules == {[class |-> cl, body |-> b] : cl \in ClassNames, b \in Bodies}

RECURSIVE RuleSeqs(_)
RuleSeqs(n) ==
    IF n = 0 THEN {<<>>}
    ELSE RuleSeqs(n - 1)
         \cup {Append(q, r) : q \in RuleSeqs(n - 1), r \in Rules}

\* a rule as it is written in a STYLE block: the selector, then one
\* indented declaration a line, then the closing brace
RenderRule(r) ==
    CueSelector \o r.class \o <<")", " ", "{", NL>>
    \o Join(<<>>, [i \in 1..Len(r.body) |->
                      <<" ", " ">> \o r.body[i].text \o <<NL>>])
    \o <<"}", NL>>

RenderRules(rules) ==
    Join(<<>>, [i \in 1..Len(rules) |-> RenderRule(rules[i])])

\* style.text = value
StyleSetText(rules, value) ==
    LET Assign(r) ==
            /\ style' = [lines |-> r.lines]
            /\ styleIn' = IF r.raised = "" THEN rules ELSE styleIn
            /\ last' = Returned("Style.text", value, r.raised)
    IN /\ Assign(StyleTextSetter(style.lines, value))
       /\ styleOut' = <<>>

\* style.colours
StyleColoursStep ==
    /\ styleOut' = StyleColours(style.lines)
    /\ last' = Returned("Style.colours", None, "")
    /\ UNCHANGED <<style, styleIn>>

StyleNext ==
    /\ \/ \E rules \in RuleSeqs(MaxRules) :
              StyleSetText(rules, Str(RenderRules(rules)))
       \/ StyleSetText(<<>>, NotAString)
       \/ StyleColoursStep
    /\ UNCHANGED <<heap, cues, hist, colours, srtIn, srtOut, tsVars>>

StyleInit == CueIdle /\ TsIdle /\ StyleIdle

SpecStyle == StyleInit /\ [][StyleNext]_vars

-----------------------------------------------------------------------------
(* Claims about the translator (SpecSrt).                                  *)

Keys(cols) == {cols[i].key : i \in 1..Len(cols)}

ColourOf(cols, k) == (CHOOSE e \in {cols[i] : i \in 1..Len(cols)} : e.key = k).value

Translated == last.op = "to_srt_formatted"

\* <font color="COLOR">CONTENT</font>
FontSpan(colour, content) ==
    <<"<", "f", "o", "n", "t", " ", "c", "o", "l", "o", "r", "=", "\"">>
    \o colour
    \o <<"\"", ">">> \o content \o <<"<", "/", "f", "o", "n", "t", ">">>

\* what C1 says a segment is translated to
ExpectedSegment(g, cols) ==
    IF g.kind = "plain" THEN g.text
    ELSE IF g.tag = "c" THEN FontSpan(ColourOf(cols, g.class), g.text)
    ELSE <<"<", g.tag, ">">> \o FontSpan(ColourOf(cols, g.class), g.text)
         \o <<"<", "/", g.tag, ">">>

SpanIndexes(segs) == {i \in 1..Len(segs) : segs[i].kind = "span"}

\* the cue text is PREFIX + <F.k>CONTENT</F> + SUFFIX, k a key of the mapping
OneClassSpan(segs, cols) ==
    /\ Cardinality(SpanIndexes(segs)) = 1
    /\ \A i \in SpanIndexes(segs) : segs[i].class \in Keys(cols)

\* C1: a cue text PREFIX + <F.k>CONTENT</F> + SUFFIX with k a key of the
\* mapping is translated to PREFIX + <font color="COLOR">CONTENT</font> +
\* SUFFIX for F = c, and with the font span wrapped in <F>..</F> for F in
\* i, b, u.
C1_ClassSpanRewritten ==
    (Translated /\ OneClassSpan(srtIn, colours) /\ RawText(1) = Render(srtIn))
    => srtOut = Join(<<>>, [i \in 1..Len(srtIn) |->
                              ExpectedSegment(srtIn[i], colours)])

\* a span <F>...</F> or <F.qualifier>...</F> of family tag stands in s
SpanOfFamily(s, tag) ==
    \E i \in 1..Len(s) :
        /\ IsAt(s, OpenTag(tag), i)
        /\ \E j \in (i + 2)..Len(s) :
            /\ s[j] = ">"
            /\ j > i + 2 => (s[i + 2] = "." /\ NoNewline(s, i + 3, j - 1))
            /\ \E k \in (j + 1)..Len(s) :
                /\ IsAt(s, CloseTag(tag), k)
                /\ NoNewline(s, j + 1, k - 1)

AnySpan(s) == \E n \in 1..Len(Tags) : SpanOfFamily(s, Tags[n])

\* the raw text with the class rewrites of every family applied
RECURSIVE Rewritten(_, _, _)
Rewritten(s, cols, n) ==
    IF n > Len(Tags) THEN s
    ELSE Rewritten(ReplaceColors(s, cols, Tags[n]), cols, n + 1)

\* C2: to_srt_formatted returns the tag-stripped text exactly when the raw
\* text holds no span <F>...</F> or <F.qualifier>...</F> of a family c, i,
\* b, u, and the raw text with the class rewrites applied whenever it holds
\* one, with or without a class qualifier.
C2_StrippedIffNoSpan ==
    Translated =>
        IF AnySpan(RawText(1))
        THEN srtOut = Rewritten(RawText(1), colours, 1)
        ELSE srtOut = CleanCueTags(RawText(1))

\* every span of the text carries a class
AllSpansClassed(segs) == \A i \in SpanIndexes(segs) : segs[i].class # <<>>

\* C9: for a cue text of plain runs and spans <F.class>...</F>, removing
\* the tags from the result of to_srt_formatted gives the cue's text
\* property: no caption text is lost.
C9_TextPreserved ==
    (Translated /\ AllSpansClassed(srtIn) /\ RawText(1) = Render(srtIn))
    => CleanCueTags(srtOut) = Text(1)

-----------------------------------------------------------------------------
(* Claims about the codec (SpecTs).                                        *)

Abs(x) == IF x < 0 THEN -x ELSE x

\* C3: _parse_timestamp(_to_timestamp(s)) succeeds and is s rounded to the
\* millisecond: a whole number of milliseconds at most half a millisecond
\* from s.
C3_RoundTrip ==
    (tsPc = "parsed" /\ tsIn.kind = "seconds")
    => /\ tsVal.raised = ""
       /\ 2 * Abs(tsVal.value * UnitsPerMs - tsIn.units) <= UnitsPerMs

\* a value of 100 hours or more whose seconds part was rounded up to 60.000
\* has made the round trip
C3_Witness ==
    /\ tsPc = "parsed"
    /\ tsIn.kind = "seconds"
    /\ tsIn.units >= 100 * 3600 * 1000 * UnitsPerMs
    /\ IsAt(tsStr, <<":", "6", "0", ".", "0", "0", "0">>, Len(tsStr) - 6)
    /\ tsVal.raised = ""
    /\ tsVal.value * UnitsPerMs > tsIn.units

\* C4: a string [H+:]MM:SS.mmm or [H+:]MM:SS,mmm parses to
\* hours*3600 + minutes*60 + seconds + milliseconds/1000 (here in
\* milliseconds), hours being the digits before the first ":" of a string
\* with an hour part and 0 for a string without.
C4_ParsedValue ==
    (tsPc = "parsed" /\ tsIn.kind = "string")
    => /\ tsVal.raised = ""
       /\ tsVal.value =
              ((IF tsIn.hours = <<>> THEN 0 ELSE IntOf(tsIn.hours)) * 3600
               + IntOf(tsIn.mm) * 60 + IntOf(tsIn.ss)) * 1000
              + IntOf(tsIn.mmm)

\* a string without an hour part, with a comma, has been parsed
C4_Witness ==
    /\ tsPc = "parsed"
    /\ tsIn.kind = "string"
    /\ tsIn.hours = <<>>
    /\ tsIn.sep = ","
    /\ tsVal.raised = ""
    /\ tsVal.value = (19 * 60 + 1) * 1000 + 7

-----------------------------------------------------------------------------
(* Claims about the cue (Spec, SpecOne).                                   *)

\* C5: a start or end setter given a string that does not match the
\* timestamp pattern raises the malformed-timestamp error, a text setter
\* given a non-string raises the text type error, and the call leaves every
\* stored start, end and line sequence as it was.
C5_FailedSetterChangesNothing ==
    [][/\ (last'.op \in {"start", "end"} /\ ~TimestampMatch(last'.arg).found)
          => /\ last'.raised = "MalformedCaptionError"
             /\ cues' = cues
             /\ heap' = heap
       /\ (last'.op = "text" /\ last'.arg.kind # "str")
          => /\ last'.raised = "AttributeError"
             /\ cues' = cues
             /\ heap' = heap
       /\ (last'.op \in {"start", "end", "text"} /\ last'.raised # "")
          => (cues' = cues /\ heap' = heap)]_vars

\* a malformed end was refused on a cue with a start, an end and two lines
C5_Witness ==
    /\ last.op = "end"
    /\ last.raised = "MalformedCaptionError"
    /\ cues[1].start > 0
    /\ cues[1].end > 0
    /\ Len(Lines(1)) = 2

\* s with every run from a "<" to the nearest ">" after it removed
RECURSIVE StripAngle(_)
StripAngle(s) ==
    LET RunEnd(i) == FirstAt(s, <<">">>, i + 1)
        I == {i \in 1..Len(s) : s[i] = "<" /\ RunEnd(i) # 0}
    IN IF I = {} THEN s
       ELSE LET i == Min(I)
            IN Slice(s, 1, i - 1) \o StripAngle(Slice(s, RunEnd(i) + 1, Len(s)))

\* C6: for any line sequence, text is raw_text with every run from a "<" to
\* the nearest following ">" removed, also when the two lie on different
\* lines, so text holds no "<" with a ">" after it.
C6_TextStripsEveryTag ==
    \A c \in Cues :
        /\ Text(c) = StripAngle(RawText(c))
        /\ \A i \in 1..Len(Text(c)) :
               Text(c)[i] = "<" => FirstAt(Text(c), <<">">>, i + 1) = 0

\* C7: raw_text is the lines of the latest text assignment (or of the
\* constructor's text), then every line appended since, in append order,
\* joined by single newlines.
C7_RawTextIsHistory ==
    RawText(1) = Join(<<NL>>, hist[1].assigned \o hist[1].appended)

\* two different lines were appended, in this order, to an unassigned cue
C7_Witness ==
    /\ last.op = "add_line"
    /\ hist[1].assigned = <<>>
    /\ hist[1].appended = <<<<"c", ">">>, <<"<", "b">>>>

\* what a caller observes of cue c, the cues being cs on heap h: its lines,
\* raw_text, text, start and end
Observed(h, cs, c) ==
    LET lines == h[cs[c].lines]
    IN <<lines, Join(<<NL>>, lines), CleanCueTags(Join(<<NL>>, lines)),
         ToTimestamp(cs[c].start * UnitsPerMs, FALSE),
         ToTimestamp(cs[c].end * UnitsPerMs, FALSE)>>

\* C10: an operation on one cue changes nothing observed on the other, nor
\* the list the caller gave the constructors; to_srt_formatted changes no
\* cue and not the style mapping.
C10_MutationIsLocal ==
    [][/\ \A c, d \in Cues :
              (c # d /\ Observed(heap', cues', c) # Observed(heap, cues, c))
              => Observed(heap', cues', d) = Observed(heap, cues, d)
       /\ heap'[CallerList] = heap[CallerList]
       /\ last'.op = "to_srt_formatted"
          => (cues' = cues /\ heap' = heap /\ colours' = colours)]_vars

-----------------------------------------------------------------------------
(* Claims about the Style block (SpecStyle).                               *)

\* the colour a rule declares in its own body, <<>> if none
DeclaredColour(r) ==
    LET I == {i \in 1..Len(r.body) : r.body[i].colour # <<>>}
    IN IF I = {} THEN <<>> ELSE r.body[Max(I)].colour

\* class -> the colour declared by the last rule of that class that
\* declares one
ExpectedColours(rules) ==
    LET Declaring(cl) == {i \in 1..Len(rules) :
                             rules[i].class = cl /\ DeclaredColour(rules[i]) # <<>>}
    IN {Entry(cl, DeclaredColour(rules[Max(Declaring(cl))])) :
           cl \in {x \in ClassNames : Declaring(x) # {}}}

\* C8: Style.colours maps each class to the colour declared inside that
\* class's own rule body, the last rule of a class winning; a rule without
\* a color declaration gives no entry and takes no later rule's colour.
C8_ColoursAreOwnRules ==
    last.op = "Style.colours"
    => {styleOut[i] : i \in 1..Len(styleOut)} = ExpectedColours(styleIn)
=============================================================================
